---- MODULE Spec2Model ----
(***************************************************************************)
(* Random Fourier features classifier (random_fourier_features.ipynb).     *)
(*                                                                         *)
(* The notebook is a linear sequence of statements over Python globals.    *)
(* Every statement is one action; a statement that raises moves the run to *)
(* pc = "failed" and nothing after it executes.                            *)
(*                                                                         *)
(* Numbers.  Complex numbers are pairs <<re, im>> of integers.  Angles are *)
(* counted in quarter turns (pi/2), so that s(x) = exp(1j*x) is exact:     *)
(* the basis w holds whole numbers of quarter turns and the pixels are     *)
(* integers, hence every X.w is a whole number of quarter turns and every  *)
(* entry of S is one of 1, i, -1, -i.  An array whose entries are          *)
(* fractions carries one common positive denominator, den.                 *)
(***************************************************************************)
EXTENDS Integers, Sequences, FiniteSets, TLC

\* ---------------------------------------------------------------- bounds
MaxN == 2          \* at most this many training samples
MaxT == 2          \* at most this many test samples
MaxK == 2          \* K, the number of random features, is at most this
MaxRuns == 2       \* the cells from the basis draw on are run at most twice

\* ------------------------------------------------------ program constants
NUM_CLASSES == 10      \* one_hot(train_y, 10)
TEST_DIVISOR == 10000  \* .sum()/10000

\* ------------------------------------------------------------ input pools
Sides == {0, 1}              \* side of a square image; M = side**2
Labels == {0, 1}             \* class ids, a subset of 0..NUM_CLASSES-1
BatchSizes == {1, 2}         \* J
RegParams == {-1, 0, 1}      \* reg_param
FeatureCounts == -1..MaxK    \* K
NormalDraws == {1, 2}        \* values np.random.normal may return, in quarter turns

\* The data set is a toy one in which the classes are separable: the flattened
\* image of a digit of class c has every one of its m pixels equal to c.
Image(c, m) == [j \in 1..m |-> c]

\* -------------------------------------------------------- complex numbers
CZero == <<0, 0>>
CAdd(a, b) == <<a[1] + b[1], a[2] + b[2]>>
CMul(a, b) == <<a[1] * b[1] - a[2] * b[2], a[1] * b[2] + a[2] * b[1]>>
CConj(a) == <<a[1], -a[2]>>
CReal(x) == <<x, 0>>

RECURSIVE CSum(_)
CSum(seq) == IF Len(seq) = 0 THEN CZero ELSE CAdd(Head(seq), CSum(Tail(seq)))

RECURSIVE ISum(_)
ISum(seq) == IF Len(seq) = 0 THEN 0 ELSE Head(seq) + ISum(Tail(seq))

Min(a, b) == IF a < b THEN a ELSE b

\* ----------------------------------------------------------------- arrays
\* An ndarray: its shape, its entries (nested sequences, one level per axis)
\* and the common denominator of the entries.
Undef == [tag |-> "undef"]
Raised(e) == [tag |-> "err", type |-> e]
IsErr(x) == x.tag = "err"
IsArr(x) == x.tag = "nd"
NoError == [type |-> "none", at |-> "none"]

\* a 1-D array of the n entries f[1..n]; an r x c array of the entries f[1..r][1..c]
Arr1(n, f) == [tag |-> "nd", sh |-> <<n>>, den |-> 1, a |-> f]
Arr2(r, c, f) == [tag |-> "nd", sh |-> <<r, c>>, den |-> 1, a |-> f]
WithDen(A, d) == [A EXCEPT !.den = d]
Ndim(A) == Len(A.sh)

\* A.T: reverses the axes; a 1-D array is its own transpose.
Transpose(A) ==
    IF Ndim(A) = 2
    THEN WithDen(Arr2(A.sh[2], A.sh[1],
                      [i \in 1..A.sh[2] |-> [j \in 1..A.sh[1] |-> A.a[j][i]]]), A.den)
    ELSE A

\* A.conj()
Conj(A) ==
    WithDen(Arr2(A.sh[1], A.sh[2],
                 [i \in 1..A.sh[1] |-> [j \in 1..A.sh[2] |-> CConj(A.a[i][j])]]), A.den)

\* a real array promoted to complex, as numpy does when it meets a complex operand
AsComplex(A) ==
    IF Ndim(A) = 2
    THEN WithDen(Arr2(A.sh[1], A.sh[2],
                      [i \in 1..A.sh[1] |-> [j \in 1..A.sh[2] |-> CReal(A.a[i][j])]]), A.den)
    ELSE WithDen(Arr1(A.sh[1], [i \in 1..A.sh[1] |-> CReal(A.a[i])]), A.den)

\* A @ B on complex arrays: 2-D @ 2-D, and 1-D @ 2-D where the vector is a row;
\* the inner dimensions must agree or numpy raises ValueError.
MatMul(A, B) ==
    IF Ndim(A) = 2 /\ Ndim(B) = 2
    THEN IF A.sh[2] # B.sh[1] THEN Raised("ValueError")
         ELSE WithDen(Arr2(A.sh[1], B.sh[2],
                           [i \in 1..A.sh[1] |-> [j \in 1..B.sh[2] |->
                              CSum([k \in 1..A.sh[2] |-> CMul(A.a[i][k], B.a[k][j])])]]),
                      A.den * B.den)
    ELSE IF Ndim(A) = 1 /\ Ndim(B) = 2
    THEN IF A.sh[1] # B.sh[1] THEN Raised("ValueError")
         ELSE WithDen(Arr1(B.sh[2],
                           [j \in 1..B.sh[2] |->
                              CSum([k \in 1..A.sh[1] |-> CMul(A.a[k], B.a[k][j])])]),
                      A.den * B.den)
    ELSE Raised("ValueError")

\* np.dot(X, w) on real 2-D arrays (pixels times quarter turns)
Dot(A, B) ==
    IF A.sh[2] # B.sh[1] THEN Raised("ValueError")
    ELSE Arr2(A.sh[1], B.sh[2],
              [i \in 1..A.sh[1] |-> [j \in 1..B.sh[2] |->
                 ISum([k \in 1..A.sh[2] |-> A.a[i][k] * B.a[k][j]])]])

\* reg_param*np.identity(K)
ScaledIdentity(c, k) ==
    Arr2(k, k, [i \in 1..k |-> [j \in 1..k |-> IF i = j THEN CReal(c) ELSE CZero]])

\* A + B, same shape, both with denominator 1
Add(A, B) ==
    Arr2(A.sh[1], A.sh[2],
         [i \in 1..A.sh[1] |-> [j \in 1..A.sh[2] |-> CAdd(A.a[i][j], B.a[i][j])]])

\* ------------------------------------------------------- np.linalg.inv
Sign(n) == IF n % 2 = 0 THEN 1 ELSE -1

\* the (k-1) x (k-1) matrix left when row i and column j are struck out
Minor(m, k, i, j) ==
    [r \in 1..(k - 1) |->
        [c \in 1..(k - 1) |-> m[IF r < i THEN r ELSE r + 1][IF c < j THEN c ELSE c + 1]]]

RECURSIVE Det(_, _)
Det(m, k) ==
    IF k = 0 THEN CReal(1)
    ELSE CSum([j \in 1..k |->
                 CMul(CReal(Sign(1 + j)), CMul(m[1][j], Det(Minor(m, k, 1, j), k - 1)))])

\* np.linalg.inv(A) for a square A with denominator 1: the adjugate over the
\* determinant, written over the positive real denominator |det|^2.  An exactly
\* singular matrix raises LinAlgError("Singular matrix"); the 0 x 0 matrix is
\* its own inverse.
Inv(A) ==
    LET k == A.sh[1]
        d == Det(A.a, k)
        C(i, j) == CMul(CReal(Sign(i + j)), Det(Minor(A.a, k, j, i), k - 1))
    IN IF d = CZero THEN Raised("LinAlgError")
       ELSE WithDen(Arr2(k, k, [i \in 1..k |-> [j \in 1..k |-> CMul(CConj(d), C(i, j))]]),
                    d[1] * d[1] + d[2] * d[2])

\* ------------------------------------------------- the notebook's functions
Cos4(q) == CASE q % 4 = 0 -> 1 [] q % 4 = 2 -> -1 [] OTHER -> 0
Sin4(q) == CASE q % 4 = 1 -> 1 [] q % 4 = 3 -> -1 [] OTHER -> 0

\* s with the product misplaced, np.exp(1j)*x: the entry is x times one fixed
\* unit number instead of the unit number at angle x.
s_scaled(x) ==
    Arr2(x.sh[1], x.sh[2],
         [i \in 1..x.sh[1] |-> [j \in 1..x.sh[2] |->
            <<Cos4(1) * x.a[i][j], Sin4(1) * x.a[i][j]>>]])

\* def s(x): return np.exp(1j*x)      (elementwise, x in quarter turns)
s(x) ==
    Arr2(x.sh[1], x.sh[2],
         [i \in 1..x.sh[1] |-> [j \in 1..x.sh[2] |-> <<Cos4(x.a[i][j]), Sin4(x.a[i][j])>>]])

\* np.squeeze: every axis of length 1 is removed
Squeeze(A) ==
    IF A.sh[1] = 1 /\ A.sh[2] = 1
    THEN [tag |-> "nd", sh |-> <<>>, den |-> A.den, a |-> A.a[1][1]]
    ELSE IF A.sh[1] = 1
    THEN WithDen(Arr1(A.sh[2], [j \in 1..A.sh[2] |-> A.a[1][j]]), A.den)
    ELSE IF A.sh[2] = 1
    THEN WithDen(Arr1(A.sh[1], [i \in 1..A.sh[1] |-> A.a[i][1]]), A.den)
    ELSE A

\* def one_hot(a, num_classes): return np.squeeze(np.eye(num_classes)[a.reshape(-1)])
\* a is the 1-D label array; row i of the indexed identity is row a[i] of np.eye.
one_hot(a, num_classes) ==
    IF \E i \in 1..a.sh[1] : a.a[i] >= num_classes \/ a.a[i] < -num_classes
    THEN Raised("IndexError")
    ELSE Squeeze(Arr2(a.sh[1], num_classes,
                      [i \in 1..a.sh[1] |-> [j \in 1..num_classes |->
                         IF (a.a[i] % num_classes) = j - 1 THEN 1 ELSE 0]]))

\* A[0:j] for j >= 0: the first min(j, len) items along the first axis
SliceFirst(A, j) ==
    LET n == Min(j, A.sh[1])
    IN IF Ndim(A) = 2
       THEN WithDen(Arr2(n, A.sh[2], [i \in 1..n |-> A.a[i]]), A.den)
       ELSE WithDen(Arr1(n, [i \in 1..n |-> A.a[i]]), A.den)

\* np.real
Real(A) ==
    IF Ndim(A) = 2
    THEN WithDen(Arr2(A.sh[1], A.sh[2],
                      [i \in 1..A.sh[1] |-> [j \in 1..A.sh[2] |-> A.a[i][j][1]]]), A.den)
    ELSE WithDen(Arr1(A.sh[1], [i \in 1..A.sh[1] |-> A.a[i][1]]), A.den)

\* np.argmax over a non-empty sequence: a left-to-right scan that moves only
\* on a strictly larger value; indices are 0-based.
RECURSIVE ArgMaxFrom(_, _, _)
ArgMaxFrom(v, i, best) ==
    IF i > Len(v) THEN best
    ELSE ArgMaxFrom(v, i + 1, IF v[i] > v[best] THEN i ELSE best)

ArgMax(v) == ArgMaxFrom(v, 2, 1) - 1

\* np.argmax(A, axis=0) for a real array (den > 0): one index per column of a
\* 2-D array, a single index (a 0-d result) for a 1-D array; nothing to take
\* the maximum of raises ValueError.
ArgMaxAxis0(A) ==
    IF A.sh[1] = 0 THEN Raised("ValueError")
    ELSE IF Ndim(A) = 2
    THEN Arr1(A.sh[2], [j \in 1..A.sh[2] |-> ArgMax([i \in 1..A.sh[1] |-> A.a[i][j]])])
    ELSE [tag |-> "nd", sh |-> <<>>, den |-> 1, a |-> ArgMax(A.a)]

\* (P == y).sum() for the predictions P and the 1-D label array y: elementwise
\* with broadcasting of a 0-d or length-1 operand.
EqSum(P, y) ==
    IF Ndim(P) = 0
    THEN Cardinality({i \in 1..y.sh[1] : y.a[i] = P.a})
    ELSE IF P.sh[1] = y.sh[1]
    THEN Cardinality({i \in 1..y.sh[1] : y.a[i] = P.a[i]})
    ELSE IF P.sh[1] = 1
    THEN Cardinality({i \in 1..y.sh[1] : y.a[i] = P.a[1]})
    ELSE IF y.sh[1] = 1
    THEN Cardinality({i \in 1..P.sh[1] : y.a[1] = P.a[i]})
    ELSE -1

\* s(np.dot(X, w)).T
FeatureMap(x, basis) ==
    LET p == Dot(x, basis) IN IF IsErr(p) THEN p ELSE Transpose(s(p))

\* (Y @ S.conj().T) @ np.linalg.inv(S @ S.conj().T + reg_param*np.identity(K))
\* evaluated left to right: the first operand that raises ends the statement.
RidgeSolve(y, feat, reg, k) ==
    LET SH == Transpose(Conj(feat))
        YSH == MatMul(AsComplex(y), SH)
        G == MatMul(feat, SH)
        I == ScaledIdentity(reg, k)
    IN IF IsErr(YSH) THEN YSH
       ELSE IF G.sh # I.sh THEN Raised("ValueError")
       ELSE LET V == Inv(Add(G, I))
            IN IF IsErr(V) THEN V ELSE MatMul(YSH, V)

\* ------------------------------------------------------------------ state
VARIABLES
    pc,            \* the statement to execute next, "done" or "failed"
    err,           \* the exception that ended the run, and the statement that raised it
    K, reg_param, J,
    train_X, train_y, test_X, test_y, N, M, train_Y, test_Y,
    X, Y,
    w, S, S_test,
    Theta,
    f_insample, f_outsample,
    pred_in, pred_out,       \* the np.argmax(...) operands of the two comparisons
    train_pred, test_pred,   \* accuracies, as fractions [num, den]
    out,                     \* what the last cell printed
    runs, prev               \* passes over the cells from the draw on; the previous pass's results

params == <<K, reg_param, J>>
data == <<train_X, train_y, test_X, test_y, N, M, train_Y, test_Y>>
batch == <<X, Y>>
feats == <<w, S, S_test>>
scores == <<f_insample, f_outsample>>
accs == <<pred_in, pred_out, train_pred, test_pred>>
vars == <<pc, err, params, data, batch, feats, Theta, scores, accs, out, runs, prev>>

\* A fresh kernel: no name is assigned yet (a scalar reads 0 until its
\* statement has run; pc tells which names exist).
Init ==
    /\ pc = "params"
    /\ err = NoError
    /\ K = 0 /\ reg_param = 0 /\ J = 0 /\ N = 0 /\ M = 0
    /\ train_X = Undef /\ train_y = Undef /\ test_X = Undef /\ test_y = Undef
    /\ train_Y = Undef /\ test_Y = Undef
    /\ X = Undef /\ Y = Undef
    /\ w = Undef /\ S = Undef /\ S_test = Undef
    /\ Theta = Undef
    /\ f_insample = Undef /\ f_outsample = Undef
    /\ pred_in = Undef /\ pred_out = Undef
    /\ train_pred = Undef /\ test_pred = Undef
    /\ out = <<>>
    /\ runs = 1
    /\ prev = Undef

\* An uncaught exception: the run stops at the statement that raised.
Raise(e, at) ==
    /\ pc' = "failed"
    /\ err' = [type |-> e.type, at |-> at]

\* K = ...; sigma = ...; reg_param = ...; J = ...
\* (sigma only scales the draws; NormalDraws are the scaled values)
Params ==
    /\ pc = "params"
    /\ K' \in FeatureCounts
    /\ reg_param' \in RegParams
    /\ J' \in BatchSizes
    /\ pc' = "load"
    /\ UNCHANGED <<err, data, batch, feats, Theta, scores, accs, out, runs, prev>>

\* (train_X, train_y), (test_X, test_y) = mnist.load_data(); N; M; the two
\* reshapes (row-major, one row per image); the two one_hot calls.
Load ==
    /\ pc = "load"
    /\ \E side \in Sides, n \in 1..MaxN, t \in 1..MaxT :
         \E ly \in [1..n -> Labels], lz \in [1..t -> Labels] :
           LET oh == one_hot(Arr1(n, ly), NUM_CLASSES)
               ot == one_hot(Arr1(t, lz), NUM_CLASSES)
           IN /\ N' = n
              /\ M' = side * side
              /\ train_X' = Arr2(n, side * side, [i \in 1..n |-> Image(ly[i], side * side)])
              /\ test_X' = Arr2(t, side * side, [i \in 1..t |-> Image(lz[i], side * side)])
              /\ train_y' = Arr1(n, ly)
              /\ test_y' = Arr1(t, lz)
              /\ IF IsErr(oh)
                 THEN Raise(oh, "load") /\ train_Y' = train_Y /\ test_Y' = test_Y
                 ELSE IF IsErr(ot)
                 THEN Raise(ot, "load") /\ train_Y' = oh /\ test_Y' = test_Y
                 ELSE pc' = "batch" /\ err' = err /\ train_Y' = oh /\ test_Y' = ot
    /\ UNCHANGED <<params, batch, feats, Theta, scores, accs, out, runs, prev>>

\* X = train_X[0:J]; Y = train_Y[0:J].T
Batch ==
    /\ pc = "batch"
    /\ X' = SliceFirst(train_X, J)
    /\ Y' = Transpose(SliceFirst(train_Y, J))
    /\ pc' = "basis"
    /\ UNCHANGED <<err, params, data, feats, Theta, scores, accs, out, runs, prev>>

\* w = np.random.normal(0, sigma, (M, K)): a negative dimension raises
\* ValueError; otherwise every entry is a fresh draw from the global generator.
DrawBasis ==
    /\ pc = "basis"
    /\ IF K < 0 \/ M < 0
       THEN Raise(Raised("ValueError"), "basis") /\ w' = w
       ELSE /\ \E d \in [1..M -> [1..K -> NormalDraws]] :
                 w' = Arr2(M, K, d)
            /\ pc' = "map_train"
            /\ err' = err
    /\ UNCHANGED <<params, data, batch, S, S_test, Theta, scores, accs, out, runs, prev>>

\* S = s(np.dot(X, w)).T
MapTrain ==
    /\ pc = "map_train"
    /\ LET r == FeatureMap(X, w)
       IN IF IsErr(r) THEN Raise(r, "map_train") /\ S' = S
          ELSE S' = r /\ pc' = "map_test" /\ err' = err
    /\ UNCHANGED <<params, data, batch, w, S_test, Theta, scores, accs, out, runs, prev>>

\* MapTest with the draw repeated in front of it: w is drawn again and the test
\* features come from the new basis.
MapTestRedraw ==
    /\ pc = "map_test"
    /\ \E d \in [1..M -> [1..K -> NormalDraws]] :
         LET r == FeatureMap(test_X, Arr2(M, K, d))
         IN /\ w' = Arr2(M, K, d)
            /\ IF IsErr(r) THEN Raise(r, "map_test") /\ S_test' = S_test
               ELSE S_test' = r /\ pc' = "solve" /\ err' = err
    /\ UNCHANGED <<params, data, batch, S, Theta, scores, accs, out, runs, prev>>

\* S_test = s(np.dot(test_X, w)).T
MapTest ==
    /\ pc = "map_test"
    /\ LET r == FeatureMap(test_X, w)
       IN IF IsErr(r) THEN Raise(r, "map_test") /\ S_test' = S_test
          ELSE S_test' = r /\ pc' = "solve" /\ err' = err
    /\ UNCHANGED <<params, data, batch, w, S, Theta, scores, accs, out, runs, prev>>

\* Solve with the failure swallowed: when the solve raises, Theta becomes a
\* matrix of zeros and the run goes on.
SolveSwallow ==
    /\ pc = "solve"
    /\ LET r == RidgeSolve(Y, S, reg_param, K)
           Z == Arr2(NUM_CLASSES, K, [i \in 1..NUM_CLASSES |-> [j \in 1..K |-> CZero]])
       IN Theta' = IF IsErr(r) THEN Z ELSE r
    /\ pc' = "f_in"
    /\ UNCHANGED <<err, params, data, batch, feats, scores, accs, out, runs, prev>>

\* Theta = (Y @ S.conj().T) @ np.linalg.inv(S @ S.conj().T + reg_param*np.identity(K))
Solve ==
    /\ pc = "solve"
    /\ LET r == RidgeSolve(Y, S, reg_param, K)
       IN IF IsErr(r) THEN Raise(r, "solve") /\ Theta' = Theta
          ELSE Theta' = r /\ pc' = "f_in" /\ err' = err
    /\ UNCHANGED <<params, data, batch, feats, scores, accs, out, runs, prev>>

\* f_insample = Theta@S
ScoreIn ==
    /\ pc = "f_in"
    /\ LET r == MatMul(Theta, S)
       IN IF IsErr(r) THEN Raise(r, "f_in") /\ f_insample' = f_insample
          ELSE f_insample' = r /\ pc' = "f_out" /\ err' = err
    /\ UNCHANGED <<params, data, batch, feats, Theta, f_outsample, accs, out, runs, prev>>

\* ScoreOut with a refit in front of it: Theta is solved again, with a stronger
\* regularization, before the test scores are taken.
ScoreOutRefit ==
    /\ pc = "f_out"
    /\ LET th == RidgeSolve(Y, S, reg_param + 1, K)
           r == IF IsErr(th) THEN th ELSE MatMul(th, S_test)
       IN IF IsErr(r)
          THEN Raise(r, "f_out") /\ f_outsample' = f_outsample /\ Theta' = Theta
          ELSE f_outsample' = r /\ Theta' = th /\ pc' = "acc_train" /\ err' = err
    /\ UNCHANGED <<params, data, batch, feats, f_insample, accs, out, runs, prev>>

\* f_outsample = Theta@S_test
ScoreOut ==
    /\ pc = "f_out"
    /\ LET r == MatMul(Theta, S_test)
       IN IF IsErr(r) THEN Raise(r, "f_out") /\ f_outsample' = f_outsample
          ELSE f_outsample' = r /\ pc' = "acc_train" /\ err' = err
    /\ UNCHANGED <<params, data, batch, feats, Theta, f_insample, accs, out, runs, prev>>

\* train_pred = (np.argmax(np.real(f_insample),axis=0) == train_y[0:J]).sum()/J
AccTrain ==
    /\ pc = "acc_train"
    /\ LET p == ArgMaxAxis0(Real(f_insample))
       IN IF IsErr(p)
          THEN Raise(p, "acc_train") /\ UNCHANGED <<pred_in, train_pred>>
          ELSE /\ pred_in' = p
               /\ train_pred' = [num |-> EqSum(p, SliceFirst(train_y, J)), den |-> J]
               /\ pc' = "acc_test"
               /\ err' = err
    /\ UNCHANGED <<params, data, batch, feats, Theta, scores, pred_out, test_pred, out, runs, prev>>

\* test_pred = (np.argmax(np.real(f_outsample),axis=0) == test_y).sum()/10000
AccTest ==
    /\ pc = "acc_test"
    /\ LET p == ArgMaxAxis0(Real(f_outsample))
       IN IF IsErr(p)
          THEN Raise(p, "acc_test") /\ UNCHANGED <<pred_out, test_pred>>
          ELSE /\ pred_out' = p
               /\ test_pred' = [num |-> EqSum(p, test_y), den |-> TEST_DIVISOR]
               /\ pc' = "report"
               /\ err' = err
    /\ UNCHANGED <<params, data, batch, feats, Theta, scores, pred_in, train_pred, out, runs, prev>>

\* the two print calls
Report ==
    /\ pc = "report"
    /\ out' = <<train_pred, test_pred>>
    /\ pc' = "done"
    /\ UNCHANGED <<err, params, data, batch, feats, Theta, scores, accs, runs, prev>>

\* The cells from the basis draw to the report are executed again in the same
\* kernel (their execution counts, 74..77, follow on from 51..53 of the cells
\* above them); the figures of the pass before are kept for comparison.
Rerun ==
    /\ pc = "done"
    /\ runs < MaxRuns
    /\ runs' = runs + 1
    /\ prev' = [Theta |-> Theta, train_pred |-> train_pred, test_pred |-> test_pred]
    /\ pc' = "basis"
    /\ UNCHANGED <<err, params, data, batch, feats, Theta, scores, accs, out>>

Next ==
    \/ Params
    \/ Load
    \/ Batch
    \/ DrawBasis
    \/ MapTrain
    \/ MapTest
    \/ Solve
    \/ ScoreIn
    \/ ScoreOut
    \/ AccTrain
    \/ AccTest
    \/ Report

\* One run of the notebook, top to bottom.
Spec == Init /\ [][Next]_vars

\* One run, then a second pass over the cells from the basis draw on.
NextRerun == Next \/ Rerun

SpecRerun == Init /\ [][NextRerun]_vars

\* ----------------------------------------------------------------- claims
\* the statements from the basis draw on, in program order
Order ==
    <<"basis", "map_train", "map_test", "solve", "f_in", "f_out",
      "acc_train", "acc_test", "report">>

Position(at) == CHOOSE i \in 1..(Len(Order) + 1) : i = Len(Order) + 1 \/ Order[i] = at

\* the statement at position i has not assigned its variable
Unassigned(i) ==
    CASE i = 1 -> w = Undef
      [] i = 2 -> S = Undef
      [] i = 3 -> S_test = Undef
      [] i = 4 -> Theta = Undef
      [] i = 5 -> f_insample = Undef
      [] i = 6 -> f_outsample = Undef
      [] i = 7 -> train_pred = Undef /\ pred_in = Undef
      [] i = 8 -> test_pred = Undef /\ pred_out = Undef
      [] OTHER -> out = <<>>

SquaredModulus(z) == z[1] * z[1] + z[2] * z[2]

\* the scores of sample j: column j of a score matrix; of a 1-D score array,
\* which holds one score per sample, its j-th entry
ScoresOf(F, j) ==
    IF Ndim(F) = 2 THEN [i \in 1..F.sh[1] |-> F.a[i][j][1]] ELSE <<F.a[j][1]>>

\* the class the comparison with the labels uses for sample j
PredictedClass(P, j) == IF Ndim(P) = 1 THEN P.a[j] ELSE P.a

\* c (0-based) is the lowest row index at which the sequence v is maximal
IsFirstMax(v, c) ==
    /\ c + 1 \in 1..Len(v)
    /\ \A r \in 1..Len(v) : v[r] <= v[c + 1]
    /\ \A r \in 1..c : v[r] < v[c + 1]

Correct(P, y, n) == Cardinality({j \in 1..n : PredictedClass(P, j) = y.a[j]})

\* A and B hold the same numbers (each is written over its own denominator)
SameNumbers(A, B) ==
    /\ A.sh = B.sh
    /\ \A i \in 1..A.sh[1] :
         IF Ndim(A) = 1
         THEN /\ A.a[i][1] * B.den = B.a[i][1] * A.den
              /\ A.a[i][2] * B.den = B.a[i][2] * A.den
         ELSE \A j \in 1..A.sh[2] :
                /\ A.a[i][j][1] * B.den = B.a[i][j][1] * A.den
                /\ A.a[i][j][2] * B.den = B.a[i][j][2] * A.den

SameFraction(p, q) == p.num * q.den = q.num * p.den

\* C1: in one run the basis w is drawn once and both feature matrices come
\* from it: whenever S (S_test) exists it is the feature map of X (test_X)
\* under the w that is in place, so nothing has drawn w again or changed it.
C1_SameBasis ==
    /\ (IsArr(S) => IsArr(w) /\ S = FeatureMap(X, w))
    /\ (IsArr(S_test) => IsArr(w) /\ S_test = FeatureMap(test_X, w))

C1_Witness ==
    /\ pc = "done"
    /\ M > 0 /\ K > 1
    /\ S.sh = <<K, 2>> /\ S_test.sh = <<K, 2>>
    /\ S # S_test

\* C2: both score arrays are products of the one Theta the ridge solve
\* produced: Theta is the solve's result for (Y, S, reg_param), and whenever
\* f_insample (f_outsample) exists it is that Theta times S (S_test).
C2_SameTheta ==
    /\ (IsArr(Theta) => Theta = RidgeSolve(Y, S, reg_param, K))
    /\ (IsArr(f_insample) => IsArr(Theta) /\ f_insample = MatMul(Theta, S))
    /\ (IsArr(f_outsample) => IsArr(Theta) /\ f_outsample = MatMul(Theta, S_test))

C2_Witness ==
    /\ pc = "done"
    /\ K > 0
    /\ Theta.sh = <<NUM_CLASSES, K>>
    /\ \E i \in 1..NUM_CLASSES, k \in 1..K : Theta.a[i][k] # CZero
    /\ f_insample.sh = <<NUM_CLASSES, 2>> /\ f_outsample.sh = <<NUM_CLASSES, 2>>

\* C3: for every scored sample, of the training batch and of the test set, the
\* predicted class is the lowest row index at which the real parts of the
\* sample's scores are maximal.
C3_ArgMaxPerColumn ==
    /\ (IsArr(pred_in) =>
          \A j \in 1..X.sh[1] :
            IsFirstMax(ScoresOf(f_insample, j), PredictedClass(pred_in, j)))
    /\ (IsArr(pred_out) =>
          \A j \in 1..test_X.sh[1] :
            IsFirstMax(ScoresOf(f_outsample, j), PredictedClass(pred_out, j)))

\* C4: each reported accuracy is the number of scored samples predicted
\* correctly over the number of samples scored, hence a value in [0, 1].
C4_AccuracyIsFraction ==
    /\ (train_pred # Undef =>
          /\ train_pred.num * X.sh[1] = Correct(pred_in, train_y, X.sh[1]) * train_pred.den
          /\ 0 <= train_pred.num /\ train_pred.num <= train_pred.den)
    /\ (test_pred # Undef =>
          /\ test_pred.num * test_X.sh[1] = Correct(pred_out, test_y, test_X.sh[1]) * test_pred.den
          /\ 0 <= test_pred.num /\ test_pred.num <= test_pred.den)

\* C5: the label matrix handed to the ridge solve is num_classes x n, n the
\* size of the batch, and column j is all 0 except for a 1 at row train_y[j].
C5_OneHotColumns ==
    IsArr(Y) =>
      /\ Y.sh = <<NUM_CLASSES, X.sh[1]>>
      /\ \A i \in 1..NUM_CLASSES, j \in 1..X.sh[1] :
           Y.a[i][j] = IF i - 1 = train_y.a[j] THEN 1 ELSE 0

\* C6: a second pass on the same inputs and configuration ends with the same
\* Theta and the same two accuracies as the first.
C6_Deterministic ==
    (runs > 1 /\ pc = "done") =>
      /\ SameNumbers(Theta, prev.Theta)
      /\ SameFraction(train_pred, prev.train_pred)
      /\ SameFraction(test_pred, prev.test_pred)

\* C7: with a negative reg_param the ridge solve produces no Theta and the run
\* does not go past it.
C7_NegativeRegRejected ==
    (pc \notin {"params", "load"} /\ reg_param < 0) =>
      /\ Theta = Undef
      /\ pc \notin {"f_in", "f_out", "acc_train", "acc_test", "report", "done"}

\* C8: with M <= 0 or K <= 0 no basis is produced and the run does not go past
\* the draw.
C8_BadDimensionRejected ==
    (pc \notin {"params", "load"} /\ (M <= 0 \/ K <= 0)) =>
      /\ w = Undef
      /\ pc \notin {"map_train", "map_test", "solve", "f_in", "f_out",
                    "acc_train", "acc_test", "report", "done"}

\* C9: a statement that raises ends the run there: the exception is recorded
\* at that statement, neither it nor any later statement has assigned its
\* variable, and nothing is printed; and the accuracies are printed only when
\* no statement before the report could have raised.
C9_AbortOnError ==
    /\ (pc = "failed") = (err # NoError)
    /\ (pc = "failed" /\ Position(err.at) <= Len(Order) =>
          \A i \in Position(err.at)..Len(Order) : Unassigned(i))
    /\ (pc = "failed" => out = <<>>)
    /\ (out # <<>> =>
          /\ pc = "done" /\ err = NoError
          /\ K >= 0
          /\ ~IsErr(FeatureMap(X, w)) /\ ~IsErr(FeatureMap(test_X, w))
          /\ ~IsErr(RidgeSolve(Y, S, reg_param, K))
          /\ ~IsErr(MatMul(Theta, S)) /\ ~IsErr(MatMul(Theta, S_test))
          /\ ~IsErr(ArgMaxAxis0(Real(f_insample)))
          /\ ~IsErr(ArgMaxAxis0(Real(f_outsample)))
          /\ out = <<train_pred, test_pred>>)

C9_Witness ==
    /\ pc = "failed"
    /\ err = [type |-> "LinAlgError", at |-> "solve"]
    /\ IsArr(S) /\ IsArr(S_test)
    /\ reg_param >= 0

\* C10: every entry of S and of S_test has modulus 1.
C10_UnitModulus ==
    \A A \in {S, S_test} :
      IsArr(A) =>
        \A i \in 1..A.sh[1], j \in 1..A.sh[2] : SquaredModulus(A.a[i][j]) = 1

C10_Witness ==
    /\ pc = "done"
    /\ \E i \in 1..S.sh[1], j \in 1..S.sh[2] : S.a[i][j] = <<0, 1>>
    /\ \E i \in 1..S_test.sh[1], j \in 1..S_test.sh[2] : S_test.a[i][j] = <<-1, 0>>

====
